---- MODULE Spec2Model ----
(***************************************************************************)
(* Model of microsoft_mcp: the Token Broker, configuration and the token  *)
(* cache file (auth.py), the sign-in tools (tools.py), the HTTP Request    *)
(* Engine, the Pagination Driver and the upload and download functions    *)
(* (graph.py).                                                             *)
(*                                                                         *)
(* Strings that the code only compares are TLA+ strings.  URLs, which the  *)
(* code takes apart (startswith, replace, concatenation), are sequences of *)
(* segments; the segment BASE_URL stands for the text of graph.BASE_URL.   *)
(* The identity provider (msal) and the Graph server are the environment:  *)
(* every answer they can give is a nondeterministic choice.                *)
(***************************************************************************)
EXTENDS Integers, Sequences, FiniteSets, TLC

VARIABLES
    cache_file,   \* TOKEN_CACHE_FILE: [exists, accounts]
    tk,           \* the last get_token call made on its own: input and outcome
    rq,           \* the request call in progress or last finished
    rq_trace,     \* what a direct request call did: HTTP attempts and sleeps, in
                  \* order (the Pagination Driver's calls are counted in pg)
    pg,           \* the _paginated_request call in progress or last finished
    pg_pages,     \* the page bodies the server delivered to that call, in order
    op,           \* the last upload_small_file or download_file call
    au,           \* the last authentication call and its outcome
    authed,       \* the identities authenticate_new_account has signed in
    sessions,     \* the provider's device-flow sessions and their state
    cfg,          \* GRAPH_CLIENT_ID of the environment and CONFIG_DIR/config.json
    cid,          \* the last get_client_id call and its outcome
    io,           \* TOKEN_CACHE_FILE as the file-system calls of _write_cache
                  \* and _read_cache see it, with the calls in progress
    mt,           \* the last account matching after a sign-in: inputs and result
    hd,           \* the last header computation of request: inputs and result
    ca            \* concurrent authenticate_new_account calls, step by step

vars == <<cache_file, tk, rq, rq_trace, pg, pg_pages, op, au, authed, sessions,
          cfg, cid, io, mt, hd, ca>>

\* the variables of the Token Broker's operations, of the Request Engine with
\* the Pagination Driver and the domain functions, of configuration and file I/O
brokerVars == <<tk, au, authed, sessions>>
engineVars == <<rq, rq_trace, pg, pg_pages, op>>
configVars == <<cfg, cid>>
otherVars  == <<mt, hd, ca>>

-----------------------------------------------------------------------------
(* Bounds of the model *)

\* largest max_retries a caller passes (the code's default is DefaultMaxRetries)
MaxRetriesBound == 3

\* number of request calls of one _paginated_request that are recorded exactly
MaxGets == 3

-----------------------------------------------------------------------------
(* auth.py: the Token Broker *)

\* Python's None for an optional string argument
NoneStr == "<None>"

\* identities the provider can sign in; home_account_id is the lookup key
Identities ==
    { [username |-> "alice@contoso.com", home_account_id |-> "id-alice"],
      [username |-> "bob@contoso.com",   home_account_id |-> "id-bob"] }

\* the account_id arguments callers pass: None, "", cached ids, an unknown id
AccountIdArgs == {NoneStr, "", "id-alice", "id-bob", "id-unknown"}

NoAccount == [username |-> "", home_account_id |-> NoneStr]

\* _read_cache followed by get_app's deserialize, then app.get_accounts()
get_accounts(file) == IF file.exists THEN file.accounts ELSE <<>>

AccountIds(accounts) == {accounts[i].home_account_id : i \in DOMAIN accounts}

\* Python truthiness of an optional string
Truthy(s) == s # NoneStr /\ s # ""

\* next((a for a in accounts if a["home_account_id"] == account_id), None)
FirstMatch(accounts, account_id) ==
    IF \E i \in DOMAIN accounts : accounts[i].home_account_id = account_id
    THEN accounts[CHOOSE i \in DOMAIN accounts :
                    /\ accounts[i].home_account_id = account_id
                    /\ \A j \in DOMAIN accounts :
                         accounts[j].home_account_id = account_id => i <= j]
    ELSE NoAccount

\* mutant: without an account_id no account is resolved
ResolveAccountGivenOnly(accounts, account_id) ==
    IF Truthy(account_id) THEN FirstMatch(accounts, account_id)
    ELSE NoAccount

\* get_token lines 76-83: the account silent acquisition is attempted for
ResolveAccount(accounts, account_id) ==
    IF Truthy(account_id) THEN FirstMatch(accounts, account_id)
    ELSE IF accounts # <<>> THEN accounts[1]
    ELSE NoAccount

\* app.acquire_token_silent(SCOPES, account): msal answers None for account=None;
\* for a cached account it answers a token of that account when the cache holds
\* a valid or refreshable entry for it (usable: the ids of those accounts), and
\* None otherwise.  "" stands for None.
SilentResults(account, usable) ==
    IF account = NoAccount THEN {""}
    ELSE IF account.home_account_id \in usable THEN {account.home_account_id}
    ELSE {""}

\* the token cache after msal stored a device-flow result for identity who:
\* entries are keyed by home_account_id, so a repeated identity adds nothing
AddAccount(accounts, who) ==
    IF who.home_account_id \in AccountIds(accounts) THEN accounts
    ELSE Append(accounts, who)

\* _write_cache(cache.serialize())
WriteCache(accounts) == [exists |-> TRUE, accounts |-> accounts]

\* mutant: the cache is never written back
PersistNever(file, accounts, changed) == file

\* if isinstance(cache, SerializableTokenCache) and cache.has_state_changed:
\*     _write_cache(cache.serialize())
Persist(file, accounts, changed) ==
    IF changed THEN WriteCache(accounts) ELSE file

\* the id of the first cached account, None when there is none
FirstCached(file) ==
    IF get_accounts(file) = <<>> THEN NoneStr
    ELSE get_accounts(file)[1].home_account_id

TokenOutcome(aid, file, usable, raised, err, tok, silent, flow, newfile, wrote) ==
    [ account_id  |-> aid,
      cached      |-> AccountIds(get_accounts(file)),
      first       |-> FirstCached(file),
      usable      |-> usable,      \* cached accounts with a valid/refreshable entry
      before      |-> file,        \* the cache file when get_token starts
      wrote       |-> wrote,       \* whether _write_cache was called
      raised      |-> raised,
      error       |-> err,
      token       |-> tok,         \* home_account_id the token was issued to
      silentFor   |-> silent,      \* account silent acquisition was tried for
      deviceFlow  |-> flow,        \* whether initiate_device_flow was called
      file        |-> newfile,     \* the cache file when get_token ends
      called      |-> TRUE ]

\* get_token(account_id) on the cache file `file`, the provider holding usable
\* entries for the accounts `usable`: every outcome the code can produce
GetTokenWith(file, account_id, usable) ==
    LET accounts == get_accounts(file)
        account  == ResolveAccount(accounts, account_id)
        sil      == account.home_account_id
    IN  \* line 85 yields a token: lines 102-111
        { TokenOutcome(account_id, file, usable, FALSE, "", t, sil, FALSE,
                       Persist(file, accounts, changed), changed) :
            t \in SilentResults(account, usable) \ {""}, changed \in BOOLEAN }
        \cup
        (IF "" \in SilentResults(account, usable)
         THEN \* lines 87-100: device flow
              { TokenOutcome(account_id, file, usable, TRUE,
                             "Failed to get device code", "", sil, TRUE, file, FALSE) }
              \cup
              { TokenOutcome(account_id, file, usable, TRUE, "Auth failed",
                             "", sil, TRUE, file, FALSE) }
              \cup
              { TokenOutcome(account_id, file, usable, FALSE, "", who.home_account_id,
                             sil, TRUE,
                             Persist(file, AddAccount(accounts, who), TRUE), TRUE) :
                  who \in Identities }
         ELSE {})

\* get_token(account_id) on the cache file `file`, over the provider's answers
GetTokenOutcomes(file, account_id) ==
    UNION { GetTokenWith(file, account_id, usable) :
              usable \in SUBSET AccountIds(get_accounts(file)) }

\* what a caller of get_token sees of a call: the token or the exception, and
\* the cache file it leaves
TokenResults(file, account_id) ==
    { [token |-> o.token, raised |-> o.raised, error |-> o.error, file |-> o.file] :
        o \in GetTokenOutcomes(file, account_id) }

NoCall == [ account_id |-> NoneStr, cached |-> {}, first |-> NoneStr, usable |-> {},
            before |-> [exists |-> FALSE, accounts |-> <<>>], wrote |-> FALSE,
            raised |-> FALSE, error |-> "",
            token |-> "", silentFor |-> NoneStr, deviceFlow |-> FALSE,
            file |-> [exists |-> FALSE, accounts |-> <<>>], called |-> FALSE ]

-----------------------------------------------------------------------------
(* graph.py: the HTTP Request Engine *)

\* the text of graph.BASE_URL, as one URL segment
BASE_URL == "https://graph.microsoft.com/v1.0"

\* a base the server may echo that is not BASE_URL (another API version)
OTHER_BASE == "https://graph.microsoft.com/beta"

\* Python's None for an optional URL
NoneUrl == <<"<None>">>

\* max_retries: int = 3
DefaultMaxRetries == 3

\* min(retry_after, 60)
RetryAfterCap == 60

\* response.headers.get("Retry-After", "5")
RetryAfterDefault == "5"

\* the Retry-After header is absent
NoHeader == "<absent>"

\* int(text) for the header texts of the model; a text outside the domain
\* (an HTTP date) makes int() raise ValueError
IntTexts == ("5" :> 5) @@ ("2" :> 2) @@ ("61" :> 61)

RetryAfterHeaders == {NoHeader, "2", "61", "Wed, 21 Oct 2026 07:28:00 GMT"}

TransportFailure == "transport"

\* what one client.request(...) can end in: a transport failure (no response)
\* or a response with a status; only a 429 carries Retry-After in the model
Statuses == {200, 204, 400, 404, 429, 500, 503}

Outcomes ==
    { [kind |-> TransportFailure, status |-> 0, retry_after |-> NoHeader] }
    \cup { [kind |-> "response", status |-> s, retry_after |-> NoHeader] :
             s \in Statuses \ {429} }
    \cup { [kind |-> "response", status |-> 429, retry_after |-> h] :
             h \in RetryAfterHeaders }

\* a JSON object of a response body, as far as the code reads it
\*   hasValue: "value" in response;  nextLink: response.get("@odata.nextLink")
JsonBody(hasValue, value, nextLink) ==
    [hasValue |-> hasValue, value |-> value, nextLink |-> nextLink]

EmptyObject == JsonBody(FALSE, <<>>, NoneUrl)

\* continuation links a server sends: absolute under BASE_URL, relative,
\* absolute under another base
Links == { <<BASE_URL, "/next">>, <<"/next">>, <<OTHER_BASE, "/next">> }

PageSizes == {0, 2}

\* the items first+1 .. first+n, in order
FreshItems(first, n) == [i \in 1..n |-> first + i]

\* the bodies a 2xx response can carry; isEmpty: not response.content.
\* Items are numbered in the order the server hands them out.
Bodies(first) ==
    { [isEmpty |-> TRUE, json |-> EmptyObject] }
    \cup { [isEmpty |-> FALSE, json |-> EmptyObject] }
    \cup { [isEmpty |-> FALSE, json |-> JsonBody(FALSE, <<>>, <<BASE_URL, "/next">>)] }
    \cup { [isEmpty |-> FALSE, json |-> JsonBody(TRUE, FreshItems(first, n), l)] :
             n \in PageSizes, l \in Links \cup {NoneUrl} }

\* request's return value: None, or the parsed JSON body
ReturnNone == [isNone |-> TRUE, json |-> EmptyObject]
ReturnJson(j) == [isNone |-> FALSE, json |-> j]

\* the body of a response that is not a success, which the code does not read
NoBody == [isEmpty |-> TRUE, json |-> EmptyObject]

\* trace entries: one HTTP attempt with what it ended in, one sleep
HttpEvent(attempt, o, body) ==
    [ev |-> "http", attempt |-> attempt, kind |-> o.kind, status |-> o.status,
     retry_after |-> o.retry_after, body |-> body, secs |-> 0]

SleepEvent(attempt, secs) ==
    [ev |-> "sleep", attempt |-> attempt, kind |-> "", status |-> 0,
     retry_after |-> NoHeader, body |-> NoBody, secs |-> secs]

Min(a, b) == IF a <= b THEN a ELSE b

\* lines 57-64: the delay slept after a 429
RateLimitDelay(retry_after) == Min(retry_after, RetryAfterCap)

\* mutant: the delay grows linearly with the attempt index
BackoffDelayLinear(attempt) == (2 * attempt) * 1

\* line 79: wait_time = (2**attempt) * 1
BackoffDelay(attempt) == (2 ^ attempt) * 1

\* mutant: every error status counts as a server error
IsServerErrorAnyStatus(o) == o.kind = "response" /\ o.status >= 400

\* line 74: e.response.status_code >= 500
IsServerError(o) == o.kind = "response" /\ o.status >= 500

\* line 76
IsTransportError(o) == o.kind = TransportFailure

\* mutant: off by one, the last attempt still counts as having budget
BudgetLeftInclusive(attempt, max_retries) == attempt <= max_retries

\* lines 59, 78: attempt < max_retries
BudgetLeft(attempt, max_retries) == attempt < max_retries

\* raise_for_status() raises HTTPStatusError
IsErrorStatus(o) == o.kind = "response" /\ o.status >= 400

RqIdle ==
    [pc |-> "idle", caller |-> "", method |-> "GET", path |-> <<>>, token |-> "",
     max_retries |-> 0, attempt |-> 0, error |-> "", errorStatus |-> 0,
     result |-> ReturnNone]

\* lines 26-29 and the for statement of line 46: the call resolves its token
\* once; a get_token failure ends the call before any attempt, and an empty
\* range(max_retries + 1) falls through to the return None of line 87
StartRequest(caller, path, max_retries, o) ==
    [ RqIdle EXCEPT
        !.caller = caller, !.path = path, !.token = o.token,
        !.max_retries = max_retries,
        !.pc = IF o.raised THEN "raised"
               ELSE IF max_retries + 1 <= 0 THEN "returned"
               ELSE "sending",
        !.error = IF o.raised THEN o.error ELSE "" ]

\* mutant: a retry that does not advance the attempt counter
ContinueSameAttempt(r) == r

\* line 46, after a continue: the for statement takes the next value of
\* range(max_retries + 1), or ends and line 87 returns None
Continue(r) ==
    IF r.attempt + 1 < r.max_retries + 1
    THEN [r EXCEPT !.attempt = r.attempt + 1]
    ELSE [r EXCEPT !.pc = "returned", !.result = ReturnNone]

\* asyncio.sleep(secs) of lines 63 and 83, as the trace shows it
Slept(r, trace, secs) ==
    IF r.caller = "direct" THEN Append(trace, SleepEvent(r.attempt, secs)) ELSE trace

\* lines 72-85: the except clause, for HTTPStatusError and TransportError
OnHttpError(r, trace, o) ==
    IF (IsServerError(o) \/ IsTransportError(o)) /\ BudgetLeft(r.attempt, r.max_retries)
    THEN [ rq    |-> Continue(r),
           trace |-> Slept(r, trace, BackoffDelay(r.attempt)) ]
    ELSE [ rq    |-> [r EXCEPT !.pc = "raised",
                               !.error = IF IsTransportError(o) THEN "TransportError"
                                         ELSE "HTTPStatusError",
                               !.errorStatus = o.status],
           trace |-> trace ]

\* lines 57-64: a 429 response
OnRateLimited(r, trace, o) ==
    LET text == IF o.retry_after = NoHeader THEN RetryAfterDefault ELSE o.retry_after
    IN  IF text \notin DOMAIN IntTexts
        THEN \* int() raises ValueError, which line 72 does not catch
             [ rq    |-> [r EXCEPT !.pc = "raised", !.error = "ValueError",
                                   !.errorStatus = 0],
               trace |-> trace ]
        ELSE IF BudgetLeft(r.attempt, r.max_retries)
        THEN [ rq    |-> Continue(r),
               trace |-> Slept(r, trace, RateLimitDelay(IntTexts[text])) ]
        ELSE \* line 66 raises HTTPStatusError, handled by the except clause
             OnHttpError(r, trace, o)

\* lines 68-70
OnSuccess(r, trace, o, body) ==
    [ rq    |-> [r EXCEPT !.pc = "returned",
                          !.result = IF o.status = 204 \/ body.isEmpty
                                     THEN ReturnNone
                                     ELSE ReturnJson(body.json)],
      trace |-> trace ]

\* lines 47-85: one iteration of the retry loop, for what client.request
\* ended in (outcome o, and body when the status is a success)
OneAttempt(r, trace0, o, body) ==
    LET trace == IF r.caller = "direct"
                 THEN Append(trace0, HttpEvent(r.attempt, o, body))
                 ELSE trace0
    IN  IF IsTransportError(o) THEN OnHttpError(r, trace, o)
        ELSE IF o.status = 429 THEN OnRateLimited(r, trace, o)
        ELSE IF IsErrorStatus(o) THEN OnHttpError(r, trace, o)
        ELSE OnSuccess(r, trace, o, body)

-----------------------------------------------------------------------------
(* graph.py: the Pagination Driver *)

\* Python truthiness of an optional URL: None and "" are false
TruthyUrl(u) == u # NoneUrl /\ u # <<>>

\* next_url.startswith(BASE_URL)
StartsWithBase(u) == Len(u) >= 1 /\ u[1] = BASE_URL

\* text.replace(BASE_URL, ""): every occurrence is removed
StripBase(u) == SelectSeq(u, LAMBDA seg : seg # BASE_URL)

\* lines 98-102: the path handed to request for next_url
PathToRequest(next_url) ==
    StripBase(IF StartsWithBase(next_url) THEN next_url ELSE <<BASE_URL>> \o next_url)

\* mutant: the page replaces the accumulator instead of extending it
ExtendOverwrites(results, value) == value

\* line 108: results.extend(response["value"])
Extend(results, value) == results \o value

\* mutant: an empty value array is taken for a missing one
HasValueNonEmpty(result) ==
    ~result.isNone /\ result.json.hasValue /\ result.json.value # <<>>

\* line 107: response and "value" in response
HasValue(result) == ~result.isNone /\ result.json.hasValue

\* mutant: a failed page fetch ends the loop and the pages so far are returned
OnPageFailureReturnsPartial(p) == [p EXCEPT !.pc = "returned", !.returned = p.results]

\* lines 100-105: request raises inside the loop, which has no try: the
\* exception leaves _paginated_request and results is dropped with its frame
OnPageFailure(p) == [p EXCEPT !.pc = "raised"]

\* gets counts the driver's request calls up to MaxGets; overflow says there
\* were more, and from then on results and pg_pages are no longer recorded
PgIdle ==
    [pc |-> "idle", account_id |-> NoneStr, results |-> <<>>, next_url |-> NoneUrl,
     gets |-> 0, overflow |-> FALSE, returned |-> <<>>]

\* the items of the pages, in page order and element order
RECURSIVE Concat(_)
Concat(pages) ==
    IF pages = <<>> THEN <<>> ELSE Head(pages).value \o Concat(Tail(pages))

RECURSIVE TotalItems(_)
TotalItems(pages) ==
    IF pages = <<>> THEN 0 ELSE Len(Head(pages).value) + TotalItems(Tail(pages))

\* what the server delivered with a success response, as the driver's page
PageEntry(o, body) ==
    LET none == o.status = 204 \/ body.isEmpty
    IN  [ noContent |-> none,
          hasValue  |-> ~none /\ body.json.hasValue,
          value     |-> IF ~none /\ body.json.hasValue THEN body.json.value ELSE <<>>,
          nextLink  |-> IF none THEN NoneUrl ELSE body.json.nextLink ]

-----------------------------------------------------------------------------
(* auth.py and tools.py: signing in with a device flow *)

\* the device-flow sessions the provider can issue, by device code
Flows == {"flow-1", "flow-2"}

\* a session is unissued, issued (the user may or may not have signed in yet),
\* or completed (its device code has been redeemed for tokens)
NoSessions == [f \in Flows |-> "unissued"]

\* str(flow) of authenticate_account, line 64
FlowText == ("flow-1" :> "{'device_code': 'flow-1', 'user_code': 'A1'}")
            @@ ("flow-2" :> "{'device_code': 'flow-2', 'user_code': 'B2'}")

\* a flow_cache text that is no Python literal
MalformedFlowCaches == {"{'device_code': "}

\* texts that are Python literals but no session: a number, and a mapping that
\* holds the device code of a session and none of its other fields
NotMappingFlowCaches == {"42"}

PartialFlowText == ("flow-1" :> "{'device_code': 'flow-1'}")

NoFlow == "<no flow>"

\* a parsed value that flow["device_code"] cannot be read from
NoDeviceCode == "<no device_code>"

\* ast.literal_eval(flow_cache), lines 80-83: NoFlow for ValueError /
\* SyntaxError; otherwise whatever the literal denotes, of which the code and
\* msal read the device code: the session's code, or NoDeviceCode
ParseFlow(text) ==
    IF \E f \in Flows : FlowText[f] = text
    THEN CHOOSE f \in Flows : FlowText[f] = text
    ELSE IF \E f \in DOMAIN PartialFlowText : PartialFlowText[f] = text
    THEN CHOOSE f \in DOMAIN PartialFlowText : PartialFlowText[f] = text
    ELSE IF text \in NotMappingFlowCaches THEN NoDeviceCode
    ELSE NoFlow

\* what acquire_token_by_device_flow answers: tokens for the identity that
\* signed in, or an error code with or without an error_description
NoDescription == NoneStr

PendingDescription ==
    "AADSTS70016: OAuth 2.0 device flow error. Authorization is pending. Continue polling."

PendingDescriptionWithCode ==
    "authorization_pending: the user has not finished signing in"

ExpiredDescription == "AADSTS70020: The provided value for the device code has expired."

DeviceSuccess(who) ==
    [error |-> "", description |-> NoDescription, who |-> who]

DeviceError(code, description) ==
    [error |-> code, description |-> description, who |-> NoAccount]

PendingResults ==
    { DeviceError("authorization_pending", d) :
        d \in {NoDescription, PendingDescription, PendingDescriptionWithCode} }

FailedResults ==
    { DeviceError("expired_token", d) : d \in {NoDescription, ExpiredDescription} }
    \cup { DeviceError("authorization_declined", NoDescription) }

\* the provider's answers for a session in state st: an issued session is
\* pending, fails, or yields tokens; a redeemed or unknown code only fails
DeviceResults(st) ==
    IF st = "issued"
    THEN PendingResults \cup FailedResults \cup {DeviceSuccess(who) : who \in Identities}
    ELSE FailedResults

\* result.get("error_description", result["error"])
ErrorMsg(result) ==
    IF result.description # NoDescription THEN result.description ELSE result.error

\* tools.py line 90: "authorization_pending" in error_msg, a substring test
\* over the texts of the model
IsPending(result) ==
    ErrorMsg(result) \in {"authorization_pending", PendingDescriptionWithCode}

\* str.lower() over the usernames of the model
LowerOf == ("Bob@Contoso.com" :> "bob@contoso.com")

Lower(text) == IF text \in DOMAIN LowerOf THEN LowerOf[text] ELSE text

\* mutant: usernames are compared as they are
MatchAccountExact(accounts, preferred_username) ==
    IF accounts = <<>> THEN NoAccount
    ELSE IF \E i \in DOMAIN accounts : accounts[i].username = preferred_username
    THEN accounts[CHOOSE i \in DOMAIN accounts :
                    /\ accounts[i].username = preferred_username
                    /\ \A j \in DOMAIN accounts :
                         accounts[j].username = preferred_username => i <= j]
    ELSE accounts[Len(accounts)]

\* the account the sign-in functions return: the first cached account whose
\* username equals the token's preferred_username ignoring case, else the
\* last cached account, else None
MatchAccount(accounts, preferred_username) ==
    IF accounts = <<>> THEN NoAccount
    ELSE IF \E i \in DOMAIN accounts :
                Lower(accounts[i].username) = Lower(preferred_username)
    THEN accounts[CHOOSE i \in DOMAIN accounts :
                    /\ Lower(accounts[i].username) = Lower(preferred_username)
                    /\ \A j \in DOMAIN accounts :
                         Lower(accounts[j].username) = Lower(preferred_username)
                         => i <= j]
    ELSE accounts[Len(accounts)]

\* accounts a cache can hold after a sign-in: two identities, a guest account
\* of the second one whose username differs in case only, and an account
\* stored without a username
MatchPool ==
    Identities \cup { [username |-> "Bob@Contoso.com", home_account_id |-> "id-bob-guest"],
                      [username |-> "", home_account_id |-> "id-unnamed"] }

\* result.get("id_token_claims", {}).get("preferred_username", ""): a name as
\* a cached account spells it, in another spelling, of no cached account, or
\* "" for a token without the claim
PreferredUsernames ==
    {"alice@contoso.com", "bob@contoso.com", "Bob@Contoso.com", "carol@contoso.com", ""}

\* the lists of distinct accounts of MatchPool, as app.get_accounts() returns
\* them after a sign-in
MatchCaches ==
    { a \in UNION { [1..n -> MatchPool] : n \in 1..Cardinality(MatchPool) } :
        \A i, j \in DOMAIN a : a[i] = a[j] => i = j }

MtIdle ==
    [ applied |-> FALSE, accounts |-> <<>>, preferred_username |-> "",
      returned |-> NoAccount ]

\* list_accounts(), lines 114-119
list_accounts(file) ==
    [ i \in DOMAIN get_accounts(file) |->
        [username   |-> get_accounts(file)[i].username,
         account_id |-> get_accounts(file)[i].home_account_id] ]

\* the last call of authenticate_new_account, authenticate_account or
\* complete_authentication: its argument, the session's state before it,
\* whether it exchanged the device code with the provider and what the provider
\* answered, how it ended, and the cache file before and after
AuIdle ==
    [ op |-> "", flow_cache |-> "", prior |-> "", exchanged |-> FALSE,
      result |-> DeviceError("", NoDescription),
      status |-> "", error |-> "", account_id |-> NoneStr,
      before |-> [exists |-> FALSE, accounts |-> <<>>],
      file   |-> [exists |-> FALSE, accounts |-> <<>>],
      wrote  |-> FALSE ]

\* mutant: the cache is written before the result is tested for an error
FailedAfterWrite(base, file, result, status, error) ==
    [ base EXCEPT !.exchanged = TRUE, !.result = result,
                  !.status = status, !.error = error,
                  !.file = WriteCache(get_accounts(file)), !.wrote = TRUE ]

\* lines 141-144 of auth.py and 88-96 of tools.py: the provider has answered
\* with an error; the function ends before the cache is written
Failed(base, file, result, status, error) ==
    [ base EXCEPT !.exchanged = TRUE, !.result = result,
                  !.status = status, !.error = error ]

\* lines 139-170 of auth.py and 97-128 of tools.py: the provider has answered
\* with tokens; the cache is written and the matching account returned
SignedIn(base, file, result) ==
    LET accounts == AddAccount(get_accounts(file), result.who)
        account  == MatchAccount(accounts, result.who.username)
    IN  [ base EXCEPT
            !.exchanged = TRUE, !.result = result,
            !.status = IF account = NoAccount THEN "error" ELSE "success",
            !.account_id = account.home_account_id,
            !.file = Persist(file, accounts, TRUE),
            !.wrote = TRUE ]

\* authenticate_new_account(), auth.py lines 122-170: every outcome over the
\* provider's answers.  acquire_token_by_device_flow polls until the user has
\* signed in or the flow fails or expires, so it never answers for an
\* unissued session
AuthenticateOutcomes(file) ==
    LET base == [AuIdle EXCEPT !.op = "authenticate_new_account",
                               !.before = file, !.file = file]
    IN  { [base EXCEPT !.status = "raised", !.error = "Failed to get device code"] }
        \cup
        { IF r.error # ""
          THEN Failed([base EXCEPT !.prior = "issued"], file, r,
                      "raised", "Auth failed")
          ELSE SignedIn([base EXCEPT !.prior = "issued"], file, r) :
            r \in DeviceResults("issued") }

\* complete_authentication(flow_cache), tools.py lines 68-128, for a session in
\* state st
CompleteOutcomes(file, flow_cache, sess) ==
    LET base == [AuIdle EXCEPT !.op = "complete_authentication",
                               !.flow_cache = flow_cache,
                               !.before = file, !.file = file]
        flow == ParseFlow(flow_cache)
    IN  IF flow = NoFlow
        THEN { [base EXCEPT !.status = "raised", !.error = "Invalid flow cache data"] }
        ELSE IF flow = NoDeviceCode
        THEN \* line 86: msal reads flow["device_code"] before it calls the provider
             { [base EXCEPT !.status = "raised", !.error = "TypeError"] }
        ELSE { IF r.error # ""
               THEN IF IsPending(r)
                    THEN Failed([base EXCEPT !.prior = sess[flow]], file, r,
                                "pending", "")
                    ELSE Failed([base EXCEPT !.prior = sess[flow]], file, r,
                                "raised", "Authentication failed")
               ELSE SignedIn([base EXCEPT !.prior = sess[flow]], file, r) :
                 r \in DeviceResults(sess[flow]) }

-----------------------------------------------------------------------------
(* auth.py: configuration *)

\* os.getenv("GRAPH_CLIENT_ID"): unset, empty, or an id
EnvValues == {NoneStr, "", "env-client-a", "env-client-b"}

NoConfig == [exists |-> FALSE, client_id |-> NoneStr]

\* json.dumps({"client_id": client_id}) in CONFIG_DIR/config.json
ConfigWith(client_id) == [exists |-> TRUE, client_id |-> client_id]

\* config.json: absent, without a client_id key, or with one
ConfigFiles == {NoConfig} \cup {ConfigWith(c) : c \in {NoneStr, "", "file-client"}}

\* the client_id arguments of set_client_id
ClientIdArgs == {"", "file-client", "other-client"}

\* the configuration the other specifications run under: the id is in the
\* environment, and get_client_id returns it at line 42
EnvConfigured == [env |-> "env-client-a", config |-> NoConfig]

NoClientIdCall ==
    [ called |-> FALSE, at |-> EnvConfigured,
      raised |-> FALSE, error |-> "", value |-> "" ]

\* the last get_client_id call made on its own, and the one the last
\* set_client_id made through get_app
CidIdle == [get |-> NoClientIdCall, set |-> NoClientIdCall]

\* get_client_id(), lines 33-51.  auth.py imports os, msal, pathlib, typing and
\* dotenv but not json, so line 46 (json.loads) raises NameError whenever it is
\* reached, that is whenever the environment gives no id and config.json exists
get_client_id(c) ==
    IF Truthy(c.env)
    THEN [raised |-> FALSE, error |-> "", value |-> c.env]
    ELSE IF c.config.exists
    THEN [raised |-> TRUE, error |-> "NameError", value |-> ""]
    ELSE [raised |-> TRUE, error |-> "ValueError", value |-> ""]

ClientIdCall(c) ==
    [ called |-> TRUE, at |-> c,
      raised |-> get_client_id(c).raised,
      error  |-> get_client_id(c).error,
      value  |-> get_client_id(c).value ]

-----------------------------------------------------------------------------
(* auth.py: the token cache file under concurrent _write_cache and _read_cache *)

\* the concurrent callers of _write_cache, and what each serialises: a text
\* that reaches the file in two write calls
Writers == {"w1", "w2"}

Content == ("w1" :> <<"w1:a", "w1:b">>) @@ ("w2" :> <<"w2:a", "w2:b">>)

\* what _read_cache returns for a missing file
Absent == <<"<None>">>

\* a stretch of the file no write has filled
Hole == "<zeros>"

\* write(2) of one block at a file position: the file grows as needed
PutBlock(data, pos, b) ==
    [ i \in 1 .. (IF pos > Len(data) THEN pos ELSE Len(data)) |->
        IF i = pos THEN b
        ELSE IF i <= Len(data) THEN data[i]
        ELSE Hole ]

\* the file, each writer's position in write_text (pos: the blocks written so
\* far), the writers that have finished in order, and the last _read_cache
IoIdle ==
    [ file   |-> [exists |-> FALSE, data |-> <<>>],
      w      |-> [x \in Writers |-> [pc |-> "idle", pos |-> 0]],
      closed |-> <<>>,
      read   |-> [done |-> FALSE, got |-> Absent, existed |-> FALSE] ]


-----------------------------------------------------------------------------
(* auth.py: authenticate_new_account calls that overlap *)

\* the concurrent callers of authenticate_new_account
Procs == {"p1", "p2"}

\* the identities that sign in through the overlapping calls
ConcurrentIdentities ==
    Identities \cup {[username |-> "carol@contoso.com", home_account_id |-> "id-carol"]}

\* mutant: the write keeps what the file holds beside the caller's own accounts
SerializeMerged(mem, file) ==
    LET NotInFile(a) == a.home_account_id \notin AccountIds(get_accounts(file))
    IN  WriteCache(get_accounts(file) \o SelectSeq(mem, NotInFile))

\* lines 146-148: _write_cache(cache.serialize()) writes the cache the caller
\* holds in memory, whatever the file holds by then
SerializeCache(mem, file) == WriteCache(mem)

\* each caller's position, the accounts of its in-memory cache, the identity
\* it signed in and the number of writes done when it loaded the file; and the
\* callers that have written, in order
CaIdle ==
    [ proc   |-> [p \in Procs |->
                   [pc |-> "idle", mem |-> <<>>, who |-> NoAccount, seen |-> 0]],
      writes |-> <<>> ]

-----------------------------------------------------------------------------
(* graph.py: the headers and query parameters request sends *)

\* a key the params dict does not hold
NoParam == "<no key>"
NoParamText == <<"<no key>">>

\* a $filter or $select text, as the sequence of its pieces: the pieces
\* "contains(", "/any(" and "body" stand for those substrings
FilterTexts ==
    { <<>>,
      <<"isRead eq false">>,
      <<"contains(", "subject, 'report')">>,
      <<"startswith(", "subject, 'report')">>,
      <<"attendees", "/any(", "a: a/emailAddress/address eq 'x@contoso.com')">> }

SelectTexts == { <<"id", ",", "subject">>, <<"id", ",", "body">> }

\* needle in text
HasPiece(text, needle) == \E i \in DOMAIN text : text[i] = needle

\* str.upper() over the method names of the model
UpperOf == ("get" :> "GET")

Upper(text) == IF text \in DOMAIN UpperOf THEN UpperOf[text] ELSE text

MethodArgs == {"GET", "get", "POST"}

\* the params argument: None, or a dict that holds some of the keys
NoneParams ==
    [isNone |-> TRUE, search |-> NoParam, filter |-> NoParamText,
     count |-> NoParam, select |-> NoParamText]

ParamsDicts ==
    [ isNone : {FALSE},
      search : {NoParam, "budget"},
      filter : {NoParamText} \cup FilterTexts,
      count  : {NoParam, "true", "false"},
      select : {NoParamText} \cup SelectTexts ]

ParamsArgs == {NoneParams} \cup ParamsDicts

\* bool(params): None and the empty dict are false
TruthyParams(params) ==
    /\ ~params.isNone
    /\ \/ params.search # NoParam \/ params.filter # NoParamText
       \/ params.count # NoParam  \/ params.select # NoParamText

\* dict.get(key, ""), for the keys that hold a text
GetText(text) == IF text = NoParamText THEN <<>> ELSE text

\* lines 31-34: the Prefer header of a GET
PreferHeader(method, params) ==
    IF Upper(method) = "GET"
       /\ (params.search # NoParam \/ HasPiece(GetText(params.select), "body"))
    THEN "outlook.body-content-type=\"text\""
    ELSE NoHeader

\* lines 35-38: the Content-Type header of the other methods
ContentTypeHeader(method, hasJson) ==
    IF Upper(method) = "GET" THEN NoHeader
    ELSE IF hasJson THEN "application/json" ELSE "application/octet-stream"

\* mutant: only $search makes a query an advanced one
NeedsConsistencySearchOnly(params) ==
    TruthyParams(params) /\ params.search # NoParam

\* lines 40-42: the query is an advanced one
NeedsConsistency(params) ==
    /\ TruthyParams(params)
    /\ \/ params.search # NoParam
       \/ HasPiece(GetText(params.filter), "contains(")
       \/ HasPiece(GetText(params.filter), "/any(")

\* line 44: params.setdefault("$count", "true")
SetDefaultCount(params) ==
    IF params.count = NoParam THEN [params EXCEPT !.count = "true"] ELSE params

\* lines 31-44: the headers beside Authorization, and the params as sent
BuildRequest(method, params, hasJson) ==
    [ applied |-> TRUE, method |-> method, params |-> params, hasJson |-> hasJson,
      prefer      |-> PreferHeader(method, params),
      contentType |-> ContentTypeHeader(method, hasJson),
      consistency |-> IF NeedsConsistency(params) THEN "eventual" ELSE NoHeader,
      sent        |-> IF NeedsConsistency(params) THEN SetDefaultCount(params)
                      ELSE params ]

HdIdle ==
    [ applied |-> FALSE, method |-> "GET", params |-> NoneParams, hasJson |-> FALSE,
      prefer |-> NoHeader, contentType |-> NoHeader, consistency |-> NoHeader,
      sent |-> NoneParams ]

-----------------------------------------------------------------------------
(* Domain functions that do more than build a path: upload and download *)

\* 4 * 1024 * 1024 of line 166
SmallFileLimit == 4 * 1024 * 1024

\* len(data) of the payloads: empty, around the limit, and well above it
PayloadSizes == {0, SmallFileLimit - 1, SmallFileLimit, SmallFileLimit + 1,
                 2 * SmallFileLimit}

\* mutant: a payload of exactly the limit is rejected too
FitsSmallFileBelow(size) == ~(size >= SmallFileLimit)

\* line 166, negated: if len(data) > 4 * 1024 * 1024: raise ValueError
FitsSmallFile(size) == ~(size > SmallFileLimit)

\* f"/drives/{drive_id}/items/{parent_id}:/{filename}:/content"
UploadPath == <<"/drives/d1/items/root:/report.txt:/content">>

\* the last call of upload_small_file or download_file: what it was given, how
\* it ended, the calls of request and of client.get it made, and the response
\* or failure its last client.get met
OpIdle ==
    [ name |-> "", pc |-> "idle", size |-> 0, account_id |-> NoneStr,
      requests |-> 0, gets |-> 0, error |-> "",
      last |-> [kind |-> "", status |-> 0, retry_after |-> NoHeader] ]

\* download_file, lines 157-162: one get_token, one client.get and
\* raise_for_status; there is no loop
DownloadOutcome(account_id, t, o) ==
    [ OpIdle EXCEPT
        !.name = "download_file", !.account_id = account_id,
        !.pc = IF t.raised \/ IsTransportError(o) \/ IsErrorStatus(o)
               THEN "raised" ELSE "returned",
        !.gets = IF t.raised THEN 0 ELSE 1,
        !.error = IF t.raised THEN t.error
                  ELSE IF IsTransportError(o) THEN "RequestError"
                  ELSE IF IsErrorStatus(o) THEN "HTTPStatusError"
                  ELSE "",
        !.last = IF t.raised THEN OpIdle.last ELSE o ]

-----------------------------------------------------------------------------
(* State machine *)

\* paths the domain functions build for their first call
Paths == { <<"/sites/s1/drives">> }

MaxRetriesArgs == (-1) .. MaxRetriesBound

NoFile == [exists |-> FALSE, accounts |-> <<>>]

\* a cache file that holds both identities
WarmFile ==
    WriteCache(<< [username |-> "alice@contoso.com", home_account_id |-> "id-alice"],
                  [username |-> "bob@contoso.com",   home_account_id |-> "id-bob"] >>)

InitWith(file) ==
    /\ cache_file = file
    /\ tk = NoCall
    /\ rq = RqIdle
    /\ rq_trace = <<>>
    /\ pg = PgIdle
    /\ pg_pages = <<>>
    /\ op = OpIdle
    /\ au = AuIdle
    /\ authed = {}
    /\ sessions = NoSessions
    /\ cfg = EnvConfigured
    /\ cid = CidIdle
    /\ io = IoIdle
    /\ mt = MtIdle
    /\ hd = HdIdle
    /\ ca = CaIdle

\* auth.get_token(account_id), called on its own
GetToken(account_id) ==
    /\ \E o \in GetTokenOutcomes(cache_file, account_id) :
         /\ tk' = o
         /\ cache_file' = o.file
    /\ UNCHANGED <<engineVars, au, authed, sessions, configVars, io, otherVars>>

\* graph.request(method, path, account_id, max_retries=...) called by a domain
\* function: lines 26-46
Request(path, account_id, max_retries) ==
    /\ rq.pc # "sending"
    /\ \E o \in TokenResults(cache_file, account_id) :
         /\ cache_file' = o.file
         /\ rq' = StartRequest("direct", path, max_retries, o)
    /\ rq_trace' = <<>>
    /\ UNCHANGED <<brokerVars, pg, pg_pages, op, configVars, io, otherVars>>

\* one iteration of request's retry loop: lines 47-85
Attempt ==
    /\ rq.pc = "sending"
    /\ \E o \in Outcomes :
         \E body \in (IF IsTransportError(o) \/ IsErrorStatus(o) \/ o.status = 204
                      THEN {NoBody}
                      ELSE Bodies(IF rq.caller = "paginate"
                                  THEN TotalItems(pg_pages) ELSE 0)) :
           LET n == OneAttempt(rq, rq_trace, o, body)
           IN  /\ rq' = n.rq
               /\ rq_trace' = n.trace
               /\ pg_pages' =
                    IF rq.caller = "paginate" /\ n.rq.pc = "returned" /\ ~pg.overflow
                    THEN Append(pg_pages, PageEntry(o, body))
                    ELSE pg_pages
    /\ UNCHANGED <<cache_file, brokerVars, pg, op, configVars, io, otherVars>>

\* graph._paginated_request(path, account_id): lines 94-95
Paginate(path, account_id) ==
    /\ pg.pc \in {"idle", "returned", "raised"}
    /\ pg' = [PgIdle EXCEPT !.pc = "loop", !.next_url = path,
                            !.account_id = account_id]
    /\ pg_pages' = <<>>
    /\ UNCHANGED <<cache_file, brokerVars, rq, rq_trace, op, configVars, io, otherVars>>

\* lines 97-105: the loop test holds and the driver calls request
PgIssue ==
    /\ pg.pc = "loop"
    /\ TruthyUrl(pg.next_url)
    /\ \E o \in TokenResults(cache_file, pg.account_id) :
         /\ cache_file' = o.file
         /\ rq' = StartRequest("paginate", PathToRequest(pg.next_url),
                               DefaultMaxRetries, o)
    /\ pg' = IF pg.gets < MaxGets
             THEN [pg EXCEPT !.pc = "waiting", !.gets = pg.gets + 1]
             ELSE [pg EXCEPT !.pc = "waiting", !.overflow = TRUE]
    /\ UNCHANGED <<brokerVars, rq_trace, pg_pages, op, configVars, io, otherVars>>

\* lines 107-111: request has returned or raised; its frame is gone
PgReceive ==
    /\ pg.pc = "waiting"
    /\ rq.pc \in {"returned", "raised"}
    /\ pg' = IF rq.pc = "raised"
             THEN OnPageFailure(pg)
             ELSE IF HasValue(rq.result)
             THEN [pg EXCEPT !.pc = "loop",
                             !.results = IF pg.overflow THEN pg.results
                                         ELSE Extend(pg.results, rq.result.json.value),
                             !.next_url = rq.result.json.nextLink]
             ELSE [pg EXCEPT !.pc = "returned", !.returned = pg.results]
    /\ rq' = RqIdle
    /\ UNCHANGED <<cache_file, brokerVars, rq_trace, pg_pages, op, configVars, io, otherVars>>

\* lines 97, 113: the loop test fails and the driver returns results
PgReturn ==
    /\ pg.pc = "loop"
    /\ ~TruthyUrl(pg.next_url)
    /\ pg' = [pg EXCEPT !.pc = "returned", !.returned = pg.results]
    /\ UNCHANGED <<cache_file, brokerVars, rq, rq_trace, pg_pages, op, configVars, io, otherVars>>

\* auth.authenticate_new_account()
AuthenticateNewAccount ==
    /\ \E o \in AuthenticateOutcomes(cache_file) :
         /\ au' = o
         /\ cache_file' = o.file
         /\ authed' = IF o.status = "success"
                      THEN authed \cup {o.result.who.home_account_id}
                      ELSE authed
    /\ UNCHANGED <<tk, sessions, engineVars, configVars, io, otherVars>>

\* tools.authenticate_account(), lines 42-65: the provider issues a session with
\* a fresh device code, or none
AuthenticateAccount ==
    /\ \/ \E f \in Flows :
            /\ sessions[f] = "unissued"
            /\ sessions' = [sessions EXCEPT ![f] = "issued"]
            /\ au' = [AuIdle EXCEPT !.op = "authenticate_account",
                                    !.flow_cache = FlowText[f],
                                    !.status = "authentication_required",
                                    !.before = cache_file, !.file = cache_file]
       \/ /\ au' = [AuIdle EXCEPT !.op = "authenticate_account",
                                    !.status = "raised",
                                    !.error = "Failed to get device code",
                                    !.before = cache_file, !.file = cache_file]
          /\ UNCHANGED sessions
    /\ UNCHANGED <<cache_file, tk, authed, engineVars, configVars, io, otherVars>>

\* tools.complete_authentication(flow_cache), lines 68-128
CompleteAuthentication(flow_cache) ==
    /\ \E o \in CompleteOutcomes(cache_file, flow_cache, sessions) :
         /\ au' = o
         /\ cache_file' = o.file
         /\ sessions' = IF o.status \in {"success", "error"}
                        THEN [sessions EXCEPT ![ParseFlow(flow_cache)] = "completed"]
                        ELSE sessions
    /\ UNCHANGED <<tk, authed, engineVars, configVars, io, otherVars>>

\* auth.get_client_id(), as get_app and server.main call it
GetClientId ==
    /\ cid' = [cid EXCEPT !.get = ClientIdCall(cfg)]
    /\ UNCHANGED <<cache_file, brokerVars, engineVars, cfg, io, otherVars>>

\* tools.set_client_id(client_id): the file is written, then auth.get_app()
\* resolves the id again
SetClientId(client_id) ==
    /\ cfg' = [cfg EXCEPT !.config = ConfigWith(client_id)]
    /\ cid' = [cid EXCEPT !.set = ClientIdCall(cfg')]
    /\ UNCHANGED <<cache_file, brokerVars, engineVars, io, otherVars>>

\* _write_cache, line 30: write_text opens the file for writing, which creates
\* it or truncates it to nothing
WriteOpen(x) ==
    /\ io.w[x].pc = "idle"
    /\ io' = [io EXCEPT !.file = [exists |-> TRUE, data |-> <<>>],
                        !.w[x] = [pc |-> "open", pos |-> 0]]
    /\ UNCHANGED <<cache_file, brokerVars, engineVars, configVars, otherVars>>

\* write_text writes the next block of the content at the writer's position
WriteBlock(x) ==
    /\ io.w[x].pc = "open"
    /\ io.w[x].pos < Len(Content[x])
    /\ io' = [io EXCEPT
                !.file.data = PutBlock(io.file.data, io.w[x].pos + 1,
                                       Content[x][io.w[x].pos + 1]),
                !.w[x].pos = io.w[x].pos + 1]
    /\ UNCHANGED <<cache_file, brokerVars, engineVars, configVars, otherVars>>

\* write_text closes the file and _write_cache returns
WriteClose(x) ==
    /\ io.w[x].pc = "open"
    /\ io.w[x].pos = Len(Content[x])
    /\ io' = [io EXCEPT !.w[x].pc = "done", !.closed = Append(io.closed, x)]
    /\ UNCHANGED <<cache_file, brokerVars, engineVars, configVars, otherVars>>

\* _read_cache, lines 21-24: read_text, or None for FileNotFoundError
ReadCache ==
    /\ io' = [io EXCEPT !.read = [done |-> TRUE,
                                  got  |-> IF io.file.exists THEN io.file.data
                                           ELSE Absent,
                                  existed |-> io.file.exists]]
    /\ UNCHANGED <<cache_file, brokerVars, engineVars, configVars, otherVars>>

\* auth.py lines 150-168 (tools.py 102-123): the account a successful sign-in
\* returns, for the accounts the cache then holds and the token's claim
MatchAfterSignIn(accounts, preferred_username) ==
    /\ mt' = [ applied |-> TRUE, accounts |-> accounts,
               preferred_username |-> preferred_username,
               returned |-> MatchAccount(accounts, preferred_username) ]
    /\ UNCHANGED <<cache_file, brokerVars, engineVars, configVars, io, hd, ca>>

\* graph.request, lines 31-44: the headers and params of a call
PrepareRequest(method, params, hasJson) ==
    /\ hd' = BuildRequest(method, params, hasJson)
    /\ UNCHANGED <<cache_file, brokerVars, engineVars, configVars, io, mt, ca>>

\* authenticate_new_account, line 124: get_app() reads the cache file into a
\* cache of the caller's own
CaLoad(p) ==
    /\ ca.proc[p].pc = "idle"
    /\ ca' = [ca EXCEPT !.proc[p] = [pc |-> "loaded",
                                      mem |-> get_accounts(cache_file),
                                      who |-> NoAccount,
                                      seen |-> Len(ca.writes)]]
    /\ UNCHANGED <<cache_file, brokerVars, engineVars, configVars, io, mt, hd>>

\* lines 125-144: the device flow ends with tokens for an identity, which msal
\* stores in the caller's cache, or with an error, which is raised
CaExchange(p) ==
    /\ ca.proc[p].pc = "loaded"
    /\ \/ \E who \in ConcurrentIdentities :
            ca' = [ca EXCEPT !.proc[p].pc = "signed",
                             !.proc[p].who = who,
                             !.proc[p].mem = AddAccount(ca.proc[p].mem, who)]
       \/ ca' = [ca EXCEPT !.proc[p].pc = "raised"]
    /\ UNCHANGED <<cache_file, brokerVars, engineVars, configVars, io, mt, hd>>

\* lines 146-148: the caller writes its cache to the file
CaPersist(p) ==
    /\ ca.proc[p].pc = "signed"
    /\ cache_file' = SerializeCache(ca.proc[p].mem, cache_file)
    /\ ca' = [ca EXCEPT !.proc[p].pc = "done", !.writes = Append(ca.writes, p)]
    /\ UNCHANGED <<brokerVars, engineVars, configVars, io, mt, hd>>

\* graph.upload_small_file(drive_id, parent_id, filename, data, account_id):
\* lines 166-170.  The size test comes first; a payload that passes is handed to
\* request("PUT", path, ...) once, with request's default max_retries
UploadSmallFile(size, account_id) ==
    /\ rq.pc # "sending"
    /\ IF ~FitsSmallFile(size)
       THEN /\ op' = [OpIdle EXCEPT !.name = "upload_small_file", !.size = size,
                                    !.account_id = account_id,
                                    !.pc = "raised", !.error = "ValueError"]
            /\ UNCHANGED <<cache_file, rq, rq_trace>>
       ELSE /\ \E o \in TokenResults(cache_file, account_id) :
                 /\ cache_file' = o.file
                 /\ rq' = [StartRequest("upload", UploadPath, DefaultMaxRetries, o)
                             EXCEPT !.method = "PUT"]
            /\ rq_trace' = <<>>
            /\ op' = [OpIdle EXCEPT !.name = "upload_small_file", !.size = size,
                                    !.account_id = account_id,
                                    !.pc = "requested", !.requests = 1]
    /\ UNCHANGED <<brokerVars, pg, pg_pages, configVars, io, otherVars>>

\* graph.download_file(drive_id, item_id, account_id): lines 157-162
DownloadFile(account_id) ==
    /\ rq.pc # "sending"
    /\ \E t \in TokenResults(cache_file, account_id), o \in Outcomes :
         /\ cache_file' = t.file
         /\ op' = DownloadOutcome(account_id, t, o)
    /\ UNCHANGED <<brokerVars, rq, rq_trace, pg, pg_pages, configVars, io, otherVars>>

\* the Token Broker, from a first run with no cache file
InitAuth == InitWith(NoFile)

NextAuth == \E a \in AccountIdArgs : GetToken(a)

SpecAuth == InitAuth /\ [][NextAuth]_vars

\* the flow_cache arguments of complete_authentication: what authenticate_account
\* returned for a session, and a text that is no literal
FlowCacheArgs ==
    {FlowText[f] : f \in Flows} \cup MalformedFlowCaches
    \cup NotMappingFlowCaches \cup {PartialFlowText[f] : f \in DOMAIN PartialFlowText}

\* the account_id arguments of get_token next to the sign-in tools in the model
SignInAccountArgs == {NoneStr, "id-unknown"}

\* signing in: the device-flow tools and get_token, from a first run
InitSignIn == InitWith(NoFile)

NextSignIn ==
    \/ AuthenticateNewAccount
    \/ AuthenticateAccount
    \/ \E c \in FlowCacheArgs : CompleteAuthentication(c)
    \/ \E a \in SignInAccountArgs : GetToken(a)

SpecSignIn == InitSignIn /\ [][NextSignIn]_vars

\* get_client_id under every environment and config file
InitConfig ==
    /\ cache_file = NoFile
    /\ tk = NoCall /\ au = AuIdle /\ authed = {} /\ sessions = NoSessions
    /\ rq = RqIdle /\ rq_trace = <<>> /\ pg = PgIdle /\ pg_pages = <<>>
    /\ op = OpIdle
    /\ cfg \in [env : EnvValues, config : ConfigFiles]
    /\ cid = CidIdle
    /\ io = IoIdle
    /\ mt = MtIdle
    /\ hd = HdIdle
    /\ ca = CaIdle

NextConfig ==
    \/ GetClientId
    \/ \E c \in ClientIdArgs : SetClientId(c)

SpecConfig == InitConfig /\ [][NextConfig]_vars

\* concurrent _write_cache calls and _read_cache calls on a first run
InitCacheIO == InitWith(NoFile)

NextCacheIO ==
    \/ \E x \in Writers : WriteOpen(x) \/ WriteBlock(x) \/ WriteClose(x)
    \/ ReadCache

SpecCacheIO == InitCacheIO /\ [][NextCacheIO]_vars

\* the account matching of the sign-in functions, over caches and claims
InitMatch == InitWith(NoFile)

NextMatch ==
    \E a \in MatchCaches, u \in PreferredUsernames : MatchAfterSignIn(a, u)

SpecMatch == InitMatch /\ [][NextMatch]_vars

\* two authenticate_new_account calls that may overlap, from a first run
InitConcurrentAuth == InitWith(NoFile)

NextConcurrentAuth ==
    \E p \in Procs : CaLoad(p) \/ CaExchange(p) \/ CaPersist(p)

SpecConcurrentAuth == InitConcurrentAuth /\ [][NextConcurrentAuth]_vars

\* the headers and params request builds, over the arguments callers pass
InitHeaders == InitWith(NoFile)

NextHeaders ==
    \E method \in MethodArgs, params \in ParamsArgs, hasJson \in BOOLEAN :
      PrepareRequest(method, params, hasJson)

SpecHeaders == InitHeaders /\ [][NextHeaders]_vars

\* the Request Engine, called by the domain functions
InitRequest == InitWith(WarmFile)

NextRequest ==
    \/ \E p \in Paths, a \in AccountIdArgs, m \in MaxRetriesArgs : Request(p, a, m)
    \/ Attempt

SpecRequest == InitRequest /\ [][NextRequest]_vars

\* the account_id arguments of the paginated domain functions in the model:
\* the default account and a cached one
PaginateAccountArgs == {NoneStr, "id-bob"}

\* the Pagination Driver on top of the Request Engine
InitPaginate == InitWith(WarmFile)

NextPaginate ==
    \/ \E p \in Paths, a \in PaginateAccountArgs : Paginate(p, a)
    \/ PgIssue
    \/ Attempt
    \/ PgReceive
    \/ PgReturn

SpecPaginate == InitPaginate /\ [][NextPaginate]_vars

\* the account_id arguments of upload and download in the model
DomainAccountArgs == {NoneStr, "id-unknown"}

\* upload_small_file and download_file on top of the Request Engine
InitDomain == InitWith(WarmFile)

NextDomain ==
    \/ \E n \in PayloadSizes, a \in DomainAccountArgs : UploadSmallFile(n, a)
    \/ \E a \in DomainAccountArgs : DownloadFile(a)
    \/ Attempt

SpecDomain == InitDomain /\ [][NextDomain]_vars

\* a running call keeps running: the event loop resumes the coroutine, and
\* every HTTP attempt ends (in a response, or in a timeout after `timeout` s)
SpecPaginateFair ==
    /\ InitPaginate
    /\ [][NextPaginate]_vars
    /\ WF_vars(PgIssue) /\ WF_vars(Attempt) /\ WF_vars(PgReceive) /\ WF_vars(PgReturn)

-----------------------------------------------------------------------------
(* Properties: the Token Broker *)

\* C1: for every account_id that is non-empty and not the id of a cached
\* account, get_token fails with AccountNotFound: it initiates no device flow,
\* performs no silent acquisition for another account and returns no token.
C1_UnknownAccountFails ==
    (tk.called /\ Truthy(tk.account_id) /\ tk.account_id \notin tk.cached)
    => /\ tk.raised
       /\ tk.error = "AccountNotFound"
       /\ ~tk.deviceFlow
       /\ tk.silentFor = NoneStr
       /\ tk.token = ""

\* the account a get_token call is about: the cached account with the given
\* id, the first cached account when no id is given, None when there is none
ResolvedId(t) ==
    IF Truthy(t.account_id)
    THEN (IF t.account_id \in t.cached THEN t.account_id ELSE NoneStr)
    ELSE t.first

\* C12: when the cache holds a valid or refreshable entry for the resolved
\* account (the first cached account when no account_id is given), get_token
\* returns a token from silent acquisition for that account and never
\* initiates a device flow.
C12_SilentWhenUsable ==
    (tk.called /\ ResolvedId(tk) # NoneStr /\ ResolvedId(tk) \in tk.usable)
    => /\ ~tk.raised
       /\ tk.silentFor = ResolvedId(tk)
       /\ tk.token = ResolvedId(tk)
       /\ ~tk.deviceFlow

\* no account_id is given, two accounts are cached, the first one is usable
C12_Witness ==
    /\ tk.called /\ tk.account_id = NoneStr
    /\ Cardinality(tk.cached) = 2 /\ tk.first = "id-bob" /\ "id-bob" \in tk.usable
    /\ tk.token = "id-bob" /\ ~tk.deviceFlow

\* C27: when get_token is called with the id of a cached account A and returns
\* a token, the token belongs to A: no path of get_token, the device-flow
\* fallback included, returns a token of another identity.
C27_TokenBelongsToAccount ==
    (tk.called /\ Truthy(tk.account_id) /\ tk.account_id \in tk.cached /\ ~tk.raised)
    => tk.token = tk.account_id

\* C13: after any sequence of successful authenticate_new_account calls run
\* one after another, list_accounts returns every identity that was
\* authenticated, with exactly one entry per account id: a repeated sign-in of
\* an identity adds no duplicate and removes no other account.
C13_ListsEveryIdentityOnce ==
    LET listed == list_accounts(cache_file)
    IN  /\ \A id \in authed :
             Cardinality({i \in DOMAIN listed : listed[i].account_id = id}) = 1
        /\ \A i, j \in DOMAIN listed :
             listed[i].account_id = listed[j].account_id => i = j
        /\ \A i \in DOMAIN listed :
             \E who \in Identities : /\ who.home_account_id = listed[i].account_id
                                      /\ who.username = listed[i].username

\* both identities have signed in with authenticate_new_account, the last call
\* signing in an identity that was cached already
C13_Witness ==
    /\ au.op = "authenticate_new_account" /\ au.status = "success"
    /\ au.result.who.home_account_id \in AccountIds(get_accounts(au.before))
    /\ authed = {"id-alice", "id-bob"}
    /\ Len(list_accounts(cache_file)) = 2

\* C14: the token cache file is written only after a successful silent
\* acquisition or a successful device-flow completion.  On every path where the
\* provider reports an error (in get_token, authenticate_new_account and
\* complete_authentication, the pending status included) the file content is
\* left unchanged, and the file changes only in a step whose call wrote it.
C14_WritesOnlyOnSuccess ==
    /\ []( /\ (tk.called /\ tk.raised) => (~tk.wrote /\ tk.file = tk.before)
           /\ (tk.called /\ tk.wrote) => (~tk.raised /\ tk.token # "")
           /\ (au.status \in {"raised", "pending"})
                => (~au.wrote /\ au.file = au.before)
           /\ au.wrote => (au.status = "success" /\ au.exchanged
                           /\ au.result.error = "") )
    /\ [][ cache_file' # cache_file
            => \/ tk' # tk /\ tk'.wrote /\ cache_file' = tk'.file
               \/ au' # au /\ au'.wrote /\ cache_file' = au'.file ]_vars

\* complete_authentication has answered pending on a first run: there is still
\* no cache file
C14_Witness ==
    /\ au.op = "complete_authentication" /\ au.status = "pending"
    /\ au.exchanged /\ ~cache_file.exists
    /\ tk.called /\ tk.raised /\ tk.deviceFlow

\* C15: when the provider reports that authorization is still pending (error
\* code authorization_pending, with or without an accompanying error
\* description), complete_authentication returns the pending status instead of
\* raising; every other provider error raises.
C15_PendingIsNotAnError ==
    (au.op = "complete_authentication" /\ au.exchanged /\ au.result.error # "")
    => IF au.result.error = "authorization_pending"
       THEN au.status = "pending"
       ELSE au.status = "raised"

\* C16: a device-flow session that has been completed successfully once cannot
\* be completed again: a second complete_authentication call with the same
\* flow_cache performs no token exchange with the provider, writes no cache
\* state and does not report success.
C16_NoReplay ==
    (au.op = "complete_authentication" /\ au.prior = "completed")
    => (~au.exchanged /\ ~au.wrote /\ au.status # "success")

\* C22: complete_authentication given a flow_cache that cannot be parsed into a
\* device-flow session fails with the validation error before any provider
\* call and before any cache write; this holds for every malformed payload,
\* including text that parses to a value that is not a session mapping with
\* the required fields.
C22_MalformedFlowRejected ==
    (au.op = "complete_authentication"
       /\ au.flow_cache \notin {FlowText[f] : f \in Flows})
    => /\ au.status = "raised"
       /\ au.error = "Invalid flow cache data"
       /\ ~au.exchanged
       /\ ~au.wrote

ListedIds(file) ==
    { list_accounts(file)[i].account_id : i \in DOMAIN list_accounts(file) }

\* both callers have signed in, written and returned, with different identities
BothDone ==
    /\ \A p \in Procs : ca.proc[p].pc = "done"
    /\ \A p, q \in Procs : p # q => ca.proc[p].who # ca.proc[q].who

\* C24: concurrent Broker operations follow read-modify-write with last writer
\* wins: the file always equals the serialized cache of the operation that
\* wrote last; when two authentications of different identities both load the
\* cache before either persists, the identity added by the earlier writer is
\* absent from list_accounts afterwards, while two such operations that do not
\* overlap keep both identities.
C24_LastWriterWins ==
    /\ ca.writes # <<>>
         => cache_file = WriteCache(ca.proc[ca.writes[Len(ca.writes)]].mem)
    /\ (BothDone /\ \A p \in Procs : ca.proc[p].seen = 0)
         => /\ ca.proc[ca.writes[1]].who.home_account_id \notin ListedIds(cache_file)
            /\ ca.proc[ca.writes[2]].who.home_account_id \in ListedIds(cache_file)
    /\ (BothDone /\ ca.proc[ca.writes[2]].seen = 1)
         => \A p \in Procs : ca.proc[p].who.home_account_id \in ListedIds(cache_file)

\* the lost update: both callers loaded the empty cache, signed in different
\* identities and wrote; only the second writer's identity is listed
C24_Witness ==
    /\ BothDone /\ \A p \in Procs : ca.proc[p].seen = 0
    /\ Len(list_accounts(cache_file)) = 1

\* two usernames are equal when case is ignored
SameNameIgnoringCase(a, b) ==
    a = b \/ {a, b} = {"bob@contoso.com", "Bob@Contoso.com"}

\* C21: when authentication succeeds and at least one account exists in the
\* cache afterwards, the sign-in functions return a cached account whose
\* username equals, ignoring case, the authenticated identity's principal
\* name, and they return the last cache entry only when no cached username
\* matches.
C21_ReturnsMatchingAccount ==
    (mt.applied /\ mt.accounts # <<>>)
    => LET matches == { i \in DOMAIN mt.accounts :
                          SameNameIgnoringCase(mt.accounts[i].username,
                                               mt.preferred_username) }
       IN  IF matches # {}
           THEN \E i \in matches : mt.returned = mt.accounts[i]
           ELSE mt.returned = mt.accounts[Len(mt.accounts)]

\* the claim spells the name in lower case, the only cached account that
\* matches spells it in mixed case and is not the last entry
C21_Witness ==
    /\ mt.applied /\ Len(mt.accounts) = 2
    /\ mt.preferred_username = "bob@contoso.com"
    /\ mt.accounts[1].username = "Bob@Contoso.com"
    /\ mt.accounts[2].username = "alice@contoso.com"
    /\ mt.returned.home_account_id = "id-bob-guest"

\* C17: get_client_id returns the environment override when it is set and
\* non-empty; otherwise it returns the client_id of the local config file when
\* that file exists with a non-empty value; it fails with the configuration
\* error (ValueError) only when neither source provides a value.
C17_ClientIdPriority ==
    cid.get.called
    => IF Truthy(cid.get.at.env)
       THEN ~cid.get.raised /\ cid.get.value = cid.get.at.env
       ELSE IF cid.get.at.config.exists /\ Truthy(cid.get.at.config.client_id)
       THEN ~cid.get.raised /\ cid.get.value = cid.get.at.config.client_id
       ELSE cid.get.raised /\ cid.get.error = "ValueError"

\* the contents _write_cache was called with
WrittenContents == {Content[x] : x \in Writers}

\* C18: _write_cache replaces the cache file atomically: under any interleaving
\* of concurrent _write_cache and _read_cache calls, every read returns absent
\* (only before the first write) or the complete content of exactly one write,
\* never an empty or partially written file; after all writes have completed
\* the file holds the content of the write that completed last.
C18_AtomicReplace ==
    /\ io.read.done
         => \/ io.read.got = Absent /\ ~io.read.existed
            \/ io.read.got \in WrittenContents
    /\ (\A x \in Writers : io.w[x].pc = "done")
         => io.file.data = Content[io.closed[Len(io.closed)]]

-----------------------------------------------------------------------------
(* Properties: the Request Engine *)

Finished == rq.pc \in {"returned", "raised"}

HttpIdx(trace) == {i \in DOMAIN trace : trace[i].ev = "http"}

NHttp(trace) == Cardinality(HttpIdx(trace))

\* the attempt ended in a 5xx response or a transport failure
IsTransient(e) ==
    e.ev = "http" /\ (e.kind = TransportFailure \/ (e.kind = "response" /\ e.status >= 500))

IsRateLimited(e) == e.ev = "http" /\ e.kind = "response" /\ e.status = 429

\* C2: when every attempt of a request call ends in a 5xx response or a
\* transport failure, the call makes exactly max_retries + 1 attempts, sleeps
\* 2^attempt seconds (1, 2, 4, ...) between consecutive attempts, does not
\* sleep after the last one, and raises the error of the final attempt.
C2_ExhaustedRetries ==
    ( /\ rq.caller = "direct"
      /\ Finished
      /\ rq_trace # <<>>
      /\ \A i \in HttpIdx(rq_trace) : IsTransient(rq_trace[i]) )
    => LET m == rq.max_retries
           last == rq_trace[Len(rq_trace)]
       IN  /\ rq.pc = "raised"
           /\ NHttp(rq_trace) = m + 1
           /\ Len(rq_trace) = 2 * m + 1
           /\ \A k \in 0 .. m :
                rq_trace[2 * k + 1].ev = "http" /\ rq_trace[2 * k + 1].attempt = k
           /\ \A k \in 0 .. (m - 1) :
                rq_trace[2 * k + 2].ev = "sleep" /\ rq_trace[2 * k + 2].secs = 2 ^ k
           /\ last.ev = "http"
           /\ rq.error = IF last.kind = TransportFailure THEN "TransportError"
                         ELSE "HTTPStatusError"
           /\ rq.errorStatus = last.status

C2_Witness ==
    /\ rq.caller = "direct" /\ rq.pc = "raised"
    /\ rq.max_retries = 2
    /\ Len(rq_trace) = 5
    /\ \A i \in HttpIdx(rq_trace) : IsTransient(rq_trace[i])
    /\ rq_trace[1].status = 503 /\ rq_trace[3].kind = TransportFailure
    /\ rq_trace[5].status = 503
    /\ rq.error = "HTTPStatusError" /\ rq.errorStatus = 503

\* C3: a 429 response received on a non-final attempt causes exactly one sleep
\* of min(Retry-After, 60) seconds (Retry-After taken as 5 when the header is
\* absent) followed by exactly one further attempt; a 429 followed by a 200
\* yields two HTTP calls, one sleep, and the body of the 200 as the result.
C3_RateLimitedRetry ==
    /\ \A i \in DOMAIN rq_trace :
         (IsRateLimited(rq_trace[i]) /\ rq_trace[i].attempt < rq.max_retries)
         => LET h == rq_trace[i].retry_after
            IN  /\ i + 1 \in DOMAIN rq_trace
                /\ rq_trace[i + 1].ev = "sleep"
                /\ h = NoHeader => rq_trace[i + 1].secs = 5
                /\ h \in DOMAIN IntTexts =>
                     rq_trace[i + 1].secs = Min(IntTexts[h], 60)
                /\ i + 1 = Len(rq_trace) => rq.pc = "sending"
                /\ i + 2 \in DOMAIN rq_trace =>
                     rq_trace[i + 2].ev = "http"
                     /\ rq_trace[i + 2].attempt = rq_trace[i].attempt + 1
    /\ ( /\ rq.caller = "direct" /\ Finished
         /\ NHttp(rq_trace) = 2
         /\ IsRateLimited(rq_trace[1])
         /\ rq_trace[Len(rq_trace)].status = 200
         /\ ~rq_trace[Len(rq_trace)].body.isEmpty )
       => /\ Len(rq_trace) = 3
          /\ rq.pc = "returned"
          /\ rq.result = ReturnJson(rq_trace[3].body.json)

\* C4 as claimed: the delay slept after a 5xx or transport failure is 2^k
\* seconds, k the number of earlier 5xx/transport failures of the call,
\* however many 429 responses came before it.
C4_BackoffCountsFailuresOnly ==
    \A i \in DOMAIN rq_trace :
      (i > 1 /\ rq_trace[i].ev = "sleep" /\ IsTransient(rq_trace[i - 1]))
      => rq_trace[i].secs =
           2 ^ Cardinality({j \in 1 .. (i - 2) : IsTransient(rq_trace[j])})

\* C4 as amended: the delay slept after a 5xx or transport failure is
\* 2^attempt seconds, attempt being the 0-based index of the failed attempt
\* among all attempts of the call, 429 responses included.
C4_BackoffByAttemptIndex ==
    \A i \in DOMAIN rq_trace :
      (i > 1 /\ rq_trace[i].ev = "sleep" /\ IsTransient(rq_trace[i - 1]))
      => rq_trace[i].secs =
           2 ^ Cardinality({j \in 1 .. (i - 2) : rq_trace[j].ev = "http"})

C4_Witness ==
    /\ Len(rq_trace) >= 4
    /\ IsRateLimited(rq_trace[1])
    /\ rq_trace[3].ev = "http" /\ rq_trace[3].status = 503
    /\ rq_trace[4].ev = "sleep" /\ rq_trace[4].secs = 2

\* C5: for every sequence of responses and transport failures and every
\* max_retries >= 0, a request call makes at most max_retries + 1 HTTP
\* attempts, 429 retries and 5xx/transport retries counted together; while
\* the call runs, each attempt made has used one unit of that budget.
C5_AttemptBudget ==
    (rq.caller = "direct" /\ rq.max_retries >= 0)
    => /\ NHttp(rq_trace) <= rq.max_retries + 1
       /\ rq.pc = "sending" =>
            NHttp(rq_trace) = rq.attempt /\ rq.attempt <= rq.max_retries
       /\ Finished /\ rq.error \notin {"Failed to get device code", "Auth failed"}
            => NHttp(rq_trace) = rq.attempt + 1

C5_Witness ==
    /\ rq.caller = "direct" /\ Finished
    /\ rq.max_retries = 2
    /\ NHttp(rq_trace) = 3
    /\ \E i, j \in DOMAIN rq_trace :
         IsRateLimited(rq_trace[i]) /\ rq_trace[j].ev = "http" /\ rq_trace[j].status = 500

\* C6: a response with an error status below 500 other than 429 makes request
\* fail on the attempt that received it: no sleep and no further attempt
\* follow, whatever budget remains.
C6_ClientErrorFailsAtOnce ==
    \A i \in DOMAIN rq_trace :
      ( /\ rq_trace[i].ev = "http" /\ rq_trace[i].kind = "response"
        /\ rq_trace[i].status >= 400 /\ rq_trace[i].status < 500
        /\ rq_trace[i].status # 429 )
      => /\ i = Len(rq_trace)
         /\ rq.pc = "raised"
         /\ rq.error = "HTTPStatusError"
         /\ rq.errorStatus = rq_trace[i].status

C6_Witness ==
    /\ rq.pc = "raised" /\ rq.max_retries = 3
    /\ Len(rq_trace) = 3
    /\ rq_trace[1].status = 500
    /\ rq_trace[3].status = 404 /\ rq_trace[3].attempt = 1
    /\ rq.errorStatus = 404

\* C7: a 429 is surfaced only after the attempt budget is exhausted: when the
\* attempt with index max_retries receives a 429, request raises that 429
\* status error without sleeping; a 429 on an earlier attempt never raises.
C7_RateLimitSurfacedAtExhaustion ==
    \A i \in DOMAIN rq_trace :
      IsRateLimited(rq_trace[i])
      => /\ rq_trace[i].attempt = rq.max_retries
              => /\ i = Len(rq_trace)
                 /\ rq.pc = "raised"
                 /\ rq.error = "HTTPStatusError"
                 /\ rq.errorStatus = 429
         /\ rq_trace[i].attempt < rq.max_retries
              => ~(i = Len(rq_trace) /\ rq.pc = "raised")

\* C29: every failure of request after the token has been obtained is the
\* HTTP status error or the transport error of the last attempt made; a 429
\* on a non-final attempt is followed by a sleep and a retry whatever its
\* Retry-After header holds (absent, an integer, a text that is no integer
\* such as an HTTP date); no other exception leaves request.
C29_OnlyHttpErrorsEscape ==
    rq.caller = "direct"
    => /\ (rq.pc = "raised" /\ rq.token # "")
            => /\ rq_trace # <<>>
               /\ rq_trace[Len(rq_trace)].ev = "http"
               /\ rq.error = IF rq_trace[Len(rq_trace)].kind = TransportFailure
                             THEN "TransportError" ELSE "HTTPStatusError"
               /\ rq.errorStatus = rq_trace[Len(rq_trace)].status
       /\ \A i \in DOMAIN rq_trace :
            (IsRateLimited(rq_trace[i]) /\ rq_trace[i].attempt < rq.max_retries)
            => i + 1 \in DOMAIN rq_trace /\ rq_trace[i + 1].ev = "sleep"

\* seconds slept in trace[from..to]
RECURSIVE SleptSecs(_, _, _)
SleptSecs(trace, from, to) ==
    IF from > to THEN 0
    ELSE (IF trace[from].ev = "sleep" THEN trace[from].secs ELSE 0)
         + SleptSecs(trace, from + 1, to)

\* lines 27-29: the Authorization header is built once, before the loop of
\* line 46, so the token attempt i carries is as old as the sleeps before it
TokenAge(trace, i) == SleptSecs(trace, 1, i - 1)

\* the validity a token can have left when get_token returns it, in seconds
TokenLifetimes == {1, 300, 3600}

\* the caller's query holds $search, or a $filter with contains( or /any(
AdvancedQuery(params) ==
    /\ ~params.isNone
    /\ \/ params.search # NoParam
       \/ /\ params.filter # NoParamText
          /\ \E i \in DOMAIN params.filter : params.filter[i] \in {"contains(", "/any("}

\* C26: request adds the ConsistencyLevel header and sets $count to "true"
\* exactly when params hold $search or a $filter that contains "contains(" or
\* "/any("; a $count the caller supplied is never overwritten; for any other
\* query neither the header nor the count is added, and the other parameters
\* are sent as given in both cases.
C26_ConsistencyLevelRule ==
    hd.applied
    => /\ (hd.consistency = "eventual") <=> AdvancedQuery(hd.params)
       /\ hd.consistency \in {"eventual", NoHeader}
       /\ hd.sent.count = IF hd.params.count # NoParam THEN hd.params.count
                          ELSE IF AdvancedQuery(hd.params) THEN "true"
                          ELSE NoParam
       /\ [hd.sent EXCEPT !.count = NoParam] = [hd.params EXCEPT !.count = NoParam]

\* a $filter with /any( and no $search, with the caller's own $count
C26_Witness ==
    /\ hd.applied
    /\ hd.params.search = NoParam
    /\ HasPiece(hd.params.filter, "/any(")
    /\ hd.params.count = "false"
    /\ hd.consistency = "eventual"
    /\ hd.sent.count = "false"

\* C23: an access token is never used past its validity: every HTTP attempt of
\* a request call, including attempts made after 429 or backoff sleeps, carries
\* a token that was resolved for that outbound attempt and is still valid when
\* the attempt is sent, whatever validity the token had left when get_token
\* returned it.
C23_TokenValidAtEveryAttempt ==
    rq.caller = "direct"
    => \A i \in HttpIdx(rq_trace) :
         \A lifetime \in TokenLifetimes : TokenAge(rq_trace, i) < lifetime

\* C20: request returns none if and only if its final attempt received a
\* successful response with status 204 or an empty body; every other
\* successful response yields that response's parsed JSON body; for every
\* value of max_retries a returned value derives from a response that was
\* actually received.
C20_ReturnDerivesFromResponse ==
    (rq.caller = "direct" /\ rq.pc = "returned")
    => /\ rq_trace # <<>>
       /\ LET last == rq_trace[Len(rq_trace)]
          IN  /\ last.ev = "http" /\ last.kind = "response" /\ last.status < 400
              /\ rq.result.isNone <=> (last.status = 204 \/ last.body.isEmpty)
              /\ ~rq.result.isNone => rq.result.json = last.body.json

-----------------------------------------------------------------------------
(* Properties: the Pagination Driver *)

\* the response ends the collection: no value field, or no continuation link
Stops(page) == ~page.hasValue \/ ~TruthyUrl(page.nextLink)

\* n pages, each a value array, every page but the last with a continuation link
IsChain(pages) ==
    /\ pages # <<>>
    /\ \A k \in DOMAIN pages :
         /\ pages[k].hasValue
         /\ TruthyUrl(pages[k].nextLink) <=> k < Len(pages)

\* C8: for an n-page chain, _paginated_request returns the concatenation of
\* the pages' value arrays in page order and element order, with exactly n
\* GET calls through request, page k+1 being requested only after page k has
\* been received and added.
C8_CollectsChainInOrder ==
    ~pg.overflow =>
      /\ (pg.pc = "returned" /\ IsChain(pg_pages))
           => /\ pg.returned = Concat(pg_pages)
              /\ pg.gets = Len(pg_pages)
      /\ (pg.pc = "waiting" /\ rq.pc = "sending")
           => /\ pg.gets = Len(pg_pages) + 1
              /\ pg.results = Concat(pg_pages)

C8_Witness ==
    /\ pg.pc = "returned" /\ ~pg.overflow
    /\ IsChain(pg_pages)
    /\ Len(pg_pages) = 3 /\ pg.gets = 3
    /\ pg.returned = <<1, 2, 3, 4, 5, 6>>

\* C9: _paginated_request always ends: whatever the server answers (links that
\* repeat or point back included), a call that runs eventually returns or raises.
C9_CollectTerminates ==
    (pg.pc \in {"loop", "waiting"}) ~> (pg.pc \in {"returned", "raised"})

\* C10: _paginated_request stops at the first response that has no
\* continuation link or lacks a value field (a none/204 response included):
\* no GET follows it, no error is raised, and the items of the pages so far
\* are returned.
C10_StopsAtFirstEnd ==
    (~pg.overflow /\ pg_pages # <<>>) =>
      LET n == Len(pg_pages)
      IN  /\ \A k \in 1 .. (n - 1) : ~Stops(pg_pages[k])
          /\ pg.pc = "returned" => Stops(pg_pages[n])
          /\ Stops(pg_pages[n])
               => /\ pg.gets = n
                  /\ rq.pc # "sending"
                  /\ pg.pc # "raised"
                  /\ pg.pc = "returned" => pg.returned = Concat(pg_pages)

C10_Witness ==
    /\ pg.pc = "returned" /\ ~pg.overflow
    /\ Len(pg_pages) = 2 /\ pg.gets = 2
    /\ pg_pages[2].noContent
    /\ pg.returned = <<1, 2>>

\* the bases a continuation link can be absolute under
BaseUrls == {BASE_URL, OTHER_BASE}

\* C25: for every continuation link (absolute under BASE_URL, absolute under
\* another base or version, or relative) the path _paginated_request passes to
\* request holds no base-URL prefix, so that the URL request builds from it,
\* BASE_URL followed by the path, holds an API base exactly once.
C25_PathHasNoBase ==
    (rq.caller = "paginate" /\ rq.pc # "idle")
    => /\ \A i \in DOMAIN rq.path : rq.path[i] \notin BaseUrls
       /\ Cardinality({ i \in DOMAIN (<<BASE_URL>> \o rq.path) :
                          (<<BASE_URL>> \o rq.path)[i] \in BaseUrls }) = 1

\* C28: each page fetch of _paginated_request has a retry budget of its own:
\* every call of request by the driver starts at attempt 0 with the default
\* max_retries, for the link the driver holds, and never makes more than
\* max_retries + 1 attempts, so n pages cost at most n * (max_retries + 1)
\* attempts; a retry asks for the same page again and leaves the pages
\* collected so far alone.  When a page fetch raises, the error leaves
\* _paginated_request and no list, partial or not, is returned.
C28_PerPageBudget ==
    /\ [](rq.caller = "paginate"
            => rq.max_retries = DefaultMaxRetries /\ rq.attempt <= rq.max_retries)
    /\ [][(pg.pc = "loop" /\ pg'.pc = "waiting")
            => /\ rq'.caller = "paginate" /\ rq'.attempt = 0
               /\ rq'.path = PathToRequest(pg.next_url)
               /\ pg'.results = pg.results]_vars
    /\ [][(rq.caller = "paginate" /\ rq.pc = "sending" /\ rq'.pc = "sending")
            => /\ rq'.attempt = rq.attempt + 1
               /\ rq'.path = rq.path
               /\ pg' = pg /\ pg_pages' = pg_pages]_vars
    /\ [][(pg.pc = "waiting" /\ rq.pc = "raised")
            => pg'.pc = "raised" /\ pg'.returned = <<>>]_vars
    /\ [](pg.pc = "raised" => pg.returned = <<>>)

\* the fetch of the second page has raised after the first page was collected
C28_Witness ==
    /\ pg.pc = "raised" /\ pg.gets = 2 /\ ~pg.overflow
    /\ Len(pg_pages) = 1 /\ pg.results = <<1, 2>>
    /\ pg.returned = <<>>

-----------------------------------------------------------------------------
(* Properties: the domain functions *)

UploadEnded(o) == o.name = "upload_small_file" /\ o.pc # "idle"

\* C11: upload_small_file with a payload larger than 4 MiB (4 * 1024 * 1024
\* bytes) raises a validation error before any token acquisition or HTTP
\* attempt: the step that rejects it leaves the cache file, the request call
\* and its trace untouched and makes no call of request.  A payload of exactly
\* 4 MiB or smaller is not rejected and leads to exactly one call of request,
\* with method PUT.
C11_SmallFileLimit ==
    /\ [](UploadEnded(op) =>
            IF op.size > 4 * 1024 * 1024
            THEN op.pc = "raised" /\ op.error = "ValueError" /\ op.requests = 0
            ELSE /\ op.pc = "requested" /\ op.error = "" /\ op.requests = 1
                 /\ rq.method = "PUT" /\ rq.path = UploadPath
                 /\ rq.pc # "idle")
    /\ [][ (UploadEnded(op') /\ op' # op /\ op'.size > 4 * 1024 * 1024)
            => (cache_file' = cache_file /\ rq' = rq /\ rq_trace' = rq_trace
                /\ tk' = tk) ]_vars

\* a payload of exactly the limit has been sent, and its request has returned
\* after one retry
C11_Witness ==
    /\ UploadEnded(op) /\ op.size = SmallFileLimit /\ op.pc = "requested"
    /\ rq.pc = "returned" /\ rq.method = "PUT" /\ rq.attempt = 1

\* the last client.get of the call met a connection failure, a timeout or a 5xx
MetTransient(o) ==
    o.last.kind = TransportFailure \/ (o.last.kind = "response" /\ o.last.status >= 500)

\* C19: every Domain Operation retries transient failures: a connection
\* failure, a timeout or a 5xx response is surfaced to the caller of a domain
\* function (download_file included) only after the retry budget of
\* DefaultMaxRetries retries is exhausted, that is after DefaultMaxRetries + 1
\* attempts.
C19_TransientSurfacedAfterBudget ==
    /\ (op.name = "download_file" /\ op.pc = "raised" /\ MetTransient(op))
         => op.gets = DefaultMaxRetries + 1
    /\ (op.name = "upload_small_file" /\ op.pc = "requested" /\ rq.pc = "raised"
           /\ (rq.error = "TransportError" \/ rq.errorStatus >= 500))
         => rq.attempt + 1 = DefaultMaxRetries + 1

====
